---- MODULE Spec2Model ----
(***************************************************************************)
(* Model of src/doveadm/doveadm-mail-server.c: the doveadm dispatcher that *)
(* resolves a user's destination (doveadm_mail_server_user_get_host),      *)
(* keeps a per-destination pool of connections with a queue of usernames   *)
(* (doveadm_mail_server_user), handles replies (doveadm_cmd_callback),     *)
(* redirects (doveadm_cmd_redirect) and drains (doveadm_server_flush_one,  *)
(* doveadm_mail_server_flush).                                             *)
(***************************************************************************)
EXTENDS Integers, Sequences, FiniteSets, TLC

VARIABLES
    doveadm_worker_count, \* doveadm_settings->doveadm_worker_count
    doveadm_port,         \* ctx->set->doveadm_port
    doveadm_server,       \* global: running as the doveadm server itself
    servers,              \* hash table: name -> [connections, queue]
    servers_created,      \* hash_table_is_created(servers)
    busy,                 \* connections with conn->callback != NULL
    cmds,                 \* live struct doveadm_mail_server_cmd
    cmd_ctx,              \* static cmd_ctx
    exit_code,            \* ctx->exit_code, per context
    internal_failure,     \* static internal_failure
    reports,              \* fatal "Command ... failed" errors logged in this run
    killed,               \* master_service_is_killed(master_service)
    pc,                   \* where the single thread is
    call,                 \* the doveadm_mail_server_user call blocked in flush_one
    flushing,             \* flush_one's server and its saved queue count
    ncalls,               \* users of this run that reached a pool so far
    nruns,                \* doveadm_mail_server_flush calls completed
    nredirects,           \* redirects performed so far
    last,                 \* the last step taken: operation, inputs, return value
    step,                 \* what the last step sent, freed and tore down
    run_ctx,              \* the context of the run the caller is in, if any
    rs_in,                \* <<input>> of the resolver on its own, else <<>>
    rs_out                \* <<result>> once resolved, else <<>>

vars == <<doveadm_worker_count, doveadm_port, doveadm_server, servers,
          servers_created, busy, cmds, cmd_ctx, exit_code, internal_failure,
          reports, killed, pc, call, flushing, ncalls, nruns, nredirects, last,
          step, run_ctx, rs_in, rs_out>>

poolvars == <<doveadm_worker_count, doveadm_port, doveadm_server, servers,
              servers_created, busy, cmds, cmd_ctx, exit_code,
              internal_failure, reports, killed, pc, call, flushing, ncalls,
              nruns, nredirects, last, step, run_ctx>>

----------------------------------------------------------------------------
(* Program constants *)

DOVEADM_SERVER_QUEUE_MAX == 16
EX_NOUSER == 67
EX_TEMPFAIL == 75
EX_DATAERR == 65
SERVER_EXIT_CODE_DISCONNECTED == 1000
DOVEADM_EX_REFERRAL == 1002

(* Bounds of the model *)

MaxCalls == 19       \* users the first run hands to the pools
MaxLaterCalls == 1   \* users a later run hands to the pools
MaxRuns == 2         \* runs (each ended by doveadm_mail_server_flush)
MaxVaried == 1       \* leading users of a run the passdb may proxy
MaxConns == 2        \* connections one destination may hold in the model
MaxRedirects == 1    \* redirects performed in one behaviour
MaxFields == 4       \* passdb fields of one lookup in the resolver check
MaxConsumed == 1     \* bytes of its input a command's first attempt has read
MaxFairCalls == 2    \* users of one run when every command is answered

NULL == <<"NULL">>
I_MAX(a, b) == IF a > b THEN a ELSE b

----------------------------------------------------------------------------
(* doveadm_mail_server_user_get_host and its collaborators *)

SocketPath == "/run/doveadm-server"
AuthSocketPath == "/run/auth-userdb"
DefaultPort == 24245

\* net_str2port(): a decimal port 1..65535, or failure (-1).
net_str2port(value) ==
    CASE value = <<"2000">> -> [ret |-> 0, port |-> 2000]
      [] value = <<"24245">> -> [ret |-> 0, port |-> 24245]
      [] OTHER -> [ret |-> -1, port |-> 0]

\* net_addr2ip(): 0 when the text is an IPv4/IPv6 address, -1 otherwise.
net_addr2ip(value) ==
    IF value \in {<<"10.0.0.1">>, <<"::1">>} THEN 0 ELSE -1

\* A field is the token list of one "key[=value]" string.
RECURSIVE strchr(_, _, _)
strchr(field, c, i) ==
    IF i > Len(field) THEN 0
    ELSE IF field[i] = c THEN i ELSE strchr(field, c, i + 1)

FieldKey(field) ==
    LET p == strchr(field, "=", 1)
    IN  IF p = 0 THEN field ELSE SubSeq(field, 1, p - 1)

FieldValue(field) ==
    LET p == strchr(field, "=", 1)
    IN  IF p = 0 THEN <<>> ELSE SubSeq(field, p + 1, Len(field))

\* The for loop over fields[i], lines 306-343.
RECURSIVE ParseFields(_, _, _)
ParseFields(fields, i, acc) ==
    IF i > Len(fields) THEN acc
    ELSE
      LET key == FieldKey(fields[i])
          value == FieldValue(fields[i])
          any_cert == IF value = <<"any-cert">> THEN {"ANY_CERT"} ELSE {}
          nxt ==
            IF key = <<"proxy">> THEN [acc EXCEPT !.proxying = TRUE]
            ELSE IF key = <<"nologin">> THEN [acc EXCEPT !.nologin = TRUE]
            ELSE IF key = <<"host">> THEN [acc EXCEPT !.proxy_host = value]
            ELSE IF key = <<"hostip">> THEN [acc EXCEPT !.proxy_hostip = value]
            ELSE IF key = <<"user">> THEN [acc EXCEPT !.user = value]
            ELSE IF key = <<"destuser">> THEN [acc EXCEPT !.user = value]
            ELSE IF key = <<"port">> THEN
                [acc EXCEPT !.proxy_port =
                    IF net_str2port(value).ret < 0 THEN 0
                    ELSE net_str2port(value).port]
            ELSE IF key = <<"ssl">> THEN
                [acc EXCEPT !.ssl_flags = @ \cup {"YES"} \cup any_cert]
            ELSE IF key = <<"starttls">> THEN
                [acc EXCEPT !.ssl_flags =
                    @ \cup {"YES", "STARTTLS"} \cup any_cert]
            ELSE acc
      IN  ParseFields(fields, i + 1, nxt)

\* A variant of GetHostDecide that refuses a nologin user without a host
\* instead of running the command locally.
GetHostDecide_nologin_needs_host(p) ==
    LET bad_ip == p.proxy_hostip # NULL /\ net_addr2ip(p.proxy_hostip) < 0
        ret0 == IF bad_ip THEN -1 ELSE 1
        err0 == IF bad_ip THEN <<AuthSocketPath, " Invalid hostip value">>
                ELSE NULL
    IN
    IF ~p.proxying /\ ~p.nologin THEN
        [ret |-> 0, referral |-> NULL, host |-> NULL, port |-> 0,
         error |-> err0]
    ELSE IF p.proxy_host = NULL THEN
        [ret |-> -1, referral |-> NULL, host |-> NULL, port |-> 0,
         error |-> <<AuthSocketPath, ": Proxy is missing destination host">>]
    ELSE IF ~p.proxying THEN
        [ret |-> 1, referral |-> <<p.user, "@", p.proxy_host>>,
         host |-> NULL, port |-> 0, error |-> err0]
    ELSE
        [ret |-> ret0, referral |-> NULL,
         host |-> <<p.proxy_host, p.proxy_port>>, port |-> p.proxy_port,
         error |-> err0]

\* Lines 344-376: the decision after the loop. ret starts as the lookup's 1;
\* host/port NULL/0 mean "left at the default".
GetHostDecide(p) ==
    LET bad_ip == p.proxy_hostip # NULL /\ net_addr2ip(p.proxy_hostip) < 0
        ret0 == IF bad_ip THEN -1 ELSE 1
        err0 == IF bad_ip THEN <<AuthSocketPath, " Invalid hostip value">>
                ELSE NULL
    IN
    IF ~p.proxying THEN
        IF ~p.nologin THEN
            [ret |-> 0, referral |-> NULL, host |-> NULL, port |-> 0,
             error |-> err0]
        ELSE IF p.proxy_host = NULL THEN
            [ret |-> 0, referral |-> NULL, host |-> NULL, port |-> 0,
             error |-> err0]
        ELSE
            [ret |-> 1, referral |-> <<p.user, "@", p.proxy_host>>,
             host |-> NULL, port |-> 0, error |-> err0]
    ELSE IF p.proxy_host = NULL THEN
        [ret |-> -1, referral |-> NULL, host |-> NULL, port |-> 0,
         error |-> <<AuthSocketPath, ": Proxy is missing destination host">>]
    ELSE
        [ret |-> ret0, referral |-> NULL,
         host |-> <<p.proxy_host, p.proxy_port>>, port |-> p.proxy_port,
         error |-> err0]

\* A variant that treats a failed passdb lookup like a user the passdb does
\* not know.
get_host_lookup_failure_is_local(cfg_port, username, lookup) ==
    [ret |-> 0, user |-> username, host |-> <<SocketPath>>,
     port |-> cfg_port, referral |-> NULL, error |-> NULL, ssl_flags |-> {}]

\* doveadm_mail_server_user_get_host(): cfg_port is ctx->set->doveadm_port,
\* lookup is auth_master_pass_lookup()'s [ret, fields].
doveadm_mail_server_user_get_host(cfg_port, username, lookup) ==
    LET dflt == [ret |-> 0, user |-> username, host |-> <<SocketPath>>,
                 port |-> cfg_port, referral |-> NULL, error |-> NULL,
                 ssl_flags |-> {}]
    IN
    IF cfg_port = 0 THEN dflt
    ELSE IF lookup.ret < 0 THEN
        [dflt EXCEPT !.ret = lookup.ret,
                     !.error = <<AuthSocketPath, ": ", "passdb lookup failed",
                                 " (to see if user is proxied, because doveadm_port is set)">>]
    ELSE IF lookup.ret = 0 THEN dflt
    ELSE
      LET p == ParseFields(lookup.fields, 1,
                   [proxying |-> FALSE, nologin |-> FALSE,
                    proxy_host |-> NULL, proxy_hostip |-> NULL,
                    proxy_port |-> cfg_port, user |-> username,
                    ssl_flags |-> {}])
          d == GetHostDecide(p)
      IN  [ret |-> d.ret, user |-> p.user,
           host |-> IF d.host = NULL THEN dflt.host ELSE d.host,
           port |-> IF d.host = NULL THEN cfg_port ELSE d.port,
           referral |-> d.referral, error |-> d.error,
           ssl_flags |-> p.ssl_flags]

\* The resolver's outcome as the caller distinguishes it.
Outcome(r) ==
    IF r.ret < 0 THEN "Error"
    ELSE IF r.ret = 0 THEN "RunLocally"
    ELSE IF r.referral # NULL THEN "Referral"
    ELSE "Proxy"

----------------------------------------------------------------------------
(* The registry, the pools and the commands.  An operator takes the heap h   *)
(* (the mutable globals) and returns the heap its C function leaves.         *)

Heap == [servers |-> servers, created |-> servers_created, busy |-> busy,
         cmds |-> cmds, exit_code |-> exit_code, cmd_ctx |-> cmd_ctx,
         internal_failure |-> internal_failure, reports |-> reports,
         stopped |-> FALSE,   \* io_loop_stop() was called
         offset |-> 0,        \* read offset of cmd_ctx->cmd_input
         run_ctx |-> run_ctx,
         sent |-> <<>>,       \* server_connection_cmd() calls of this step
         freed |-> {},        \* doveadm_mail_server_cmd_free() calls
         replied |-> <<>>,    \* the command whose reply this step handles,
                              \* how much of its input was read, reply->error
         teardown |-> <<>>,   \* the teardown of doveadm_mail_server_flush
         lookup |-> <<>>,     \* what auth_master_pass_lookup() returned
         error |-> NULL]      \* *error_r of doveadm_mail_server_user

EmptyTable == [n \in {} |-> 0]

\* doveadm_server_get(): lookup or lazily create.
doveadm_server_get(h, name) ==
    IF name \in DOMAIN h.servers THEN [h EXCEPT !.created = TRUE]
    ELSE [h EXCEPT !.created = TRUE,
                   !.servers = (name :> [connections |-> <<>>, queue |-> <<>>])
                               @@ h.servers]

\* server_connection_is_idle(): no callback pending.
server_connection_is_idle(h, conn) == conn \notin h.busy

\* A variant that returns the first connection whatever its state.
find_unused_conn_any(h, name) ==
    LET conns == h.servers[name].connections
    IN  IF Len(conns) = 0 THEN NULL ELSE conns[1]

doveadm_server_find_unused_conn(h, name) ==
    LET conns == h.servers[name].connections
        idle == {i \in 1..Len(conns) : server_connection_is_idle(h, conns[i])}
    IN  IF idle = {} THEN NULL
        ELSE conns[CHOOSE i \in idle : \A j \in idle : i <= j]

doveadm_server_have_used_connections(h, name) ==
    \E i \in 1..Len(h.servers[name].connections) :
        ~server_connection_is_idle(h, h.servers[name].connections[i])

\* server_connection_get_server()
server_connection_get_server(conn) == conn[1]

\* server_connection_create(): on success the connection joins
\* server->connections; ok is the transport's outcome.
server_connection_create(h, name, ok) ==
    LET conns == h.servers[name].connections
        used == {conns[i][2] : i \in 1..Len(conns)}
        n == CHOOSE k \in 1..(Len(conns) + 1) : k \notin used
        conn == <<name, n>>
    IN  IF ok THEN [ret |-> 0, conn |-> conn,
                    h |-> [h EXCEPT !.servers[name].connections =
                                        Append(conns, conn)]]
        ELSE [ret |-> -1, conn |-> NULL, h |-> h]

\* server_connection_cmd(): the line and the input, read from its current
\* offset, go out on conn, which now awaits a reply.
server_connection_cmd(h, conn, cmdline, input) ==
    [h EXCEPT !.busy = @ \cup {conn},
              !.sent = Append(@, [conn |-> conn, cmdline |-> cmdline,
                                  input |-> input,
                                  offset |-> IF input = NULL THEN 0
                                             ELSE h.offset])]

\* i_stream_seek(): the stream is read from v on.
i_stream_seek(h, v) == [h EXCEPT !.offset = v]

\* A variant of doveadm_mail_server_cmd_free that leaves the command
\* allocated.
cmd_free_leak(h, cmd) ==
    [h EXCEPT !.freed = @ \cup {[cmd |-> cmd, live |-> cmd \in h.cmds]}]

\* doveadm_mail_server_cmd_free(): live tells whether cmd was allocated and
\* not freed before.
doveadm_mail_server_cmd_free(h, cmd) ==
    [h EXCEPT !.cmds = @ \ {cmd},
              !.freed = @ \cup {[cmd |-> cmd, live |-> cmd \in h.cmds]}]

\* cmd_ctx->cmd_input: the second context carries an input stream, the first
\* none.
cmd_input(ctx) == IF ctx = "ctx2" THEN <<"stream">> ELSE NULL

\* The line doveadm_mail_server_handle builds, lines 209-224, with neither
\* the debug nor the verbose flag; ctx stands for the command's name and
\* arguments.
Cmdline(ctx, username) == <<"\t", username, "\t", ctx, "\n">>

\* doveadm_mail_server_handle(): bind a new command to conn and send it.
doveadm_mail_server_handle(h, conn, username) ==
    LET servercmd == [conn |-> conn, username |-> username,
                      cmdline |-> Cmdline(h.cmd_ctx, username),
                      input |-> cmd_input(h.cmd_ctx)]
    IN  server_connection_cmd([h EXCEPT !.cmds = @ \cup {servercmd}],
                              conn, servercmd.cmdline, servercmd.input)

\* auth_proxy_parse_redirect(): FALSE for a malformed destination.
BadDestination == <<"">>
auth_proxy_parse_redirect(destination) == destination # BadDestination

\* A variant of redirect_resend that sends the input from where the first
\* attempt left it.
redirect_resend_no_seek(h, servercmd, conn) ==
    LET h1 == [h EXCEPT !.cmds = (@ \ {servercmd}) \cup
                             {[servercmd EXCEPT !.conn = conn]}]
    IN  server_connection_cmd(h1, conn, servercmd.cmdline, servercmd.input)

\* Lines 140-144 of doveadm_cmd_redirect: rebind the command, rewind its
\* input and send the saved line on conn.
redirect_resend(h, servercmd, conn) ==
    LET h1 == [h EXCEPT !.cmds = (@ \ {servercmd}) \cup
                             {[servercmd EXCEPT !.conn = conn]}]
        h2 == IF servercmd.input # NULL THEN i_stream_seek(h1, 0) ELSE h1
    IN  server_connection_cmd(h2, conn, servercmd.cmdline, servercmd.input)

\* doveadm_cmd_redirect(): [ret, h].
doveadm_cmd_redirect(h, servercmd, destination, ok) ==
    IF ~auth_proxy_parse_redirect(destination) THEN [ret |-> -1, h |-> h]
    ELSE
      LET h1 == doveadm_server_get(h, destination)
          found == doveadm_server_find_unused_conn(h1, destination)
          cr == IF found = NULL
                THEN server_connection_create(h1, destination, ok)
                ELSE [ret |-> 0, conn |-> found, h |-> h1]
      IN  IF cr.ret < 0 THEN [ret |-> -1, h |-> h1]
          ELSE [ret |-> 0, h |-> redirect_resend(cr.h, servercmd, cr.conn)]

\* A variant of callback_pop_queue that takes the newest queued username.
callback_pop_queue_newest(h, name) ==
    LET q == h.servers[name].queue
        conn == doveadm_server_find_unused_conn(h, name)
    IN  IF Len(q) > 0 /\ conn # NULL
        THEN doveadm_mail_server_handle(
                [h EXCEPT !.servers[name].queue = SubSeq(q, 1, Len(q) - 1)],
                conn, q[Len(q)])
        ELSE h

\* A variant of callback_pop_queue that leaves the queue alone.
callback_pop_queue_never(h, name) == h

\* The queue step at the end of doveadm_cmd_callback, lines 186-197.
callback_pop_queue(h, name) ==
    LET q == h.servers[name].queue
        conn == doveadm_server_find_unused_conn(h, name)
    IN  IF Len(q) > 0 /\ conn # NULL
        THEN doveadm_mail_server_handle(
                [h EXCEPT !.servers[name].queue = Tail(q)],
                conn, Head(q))
        ELSE h

\* Variants of callback_exit_code: the last failure wins; the first failure
\* wins.
callback_exit_code_last_wins(old, code) ==
    IF code = 0 THEN old
    ELSE IF code = EX_NOUSER THEN (IF old = 0 THEN EX_NOUSER ELSE old)
    ELSE code

callback_exit_code_first_wins(old, code) ==
    IF code = 0 THEN old
    ELSE IF old = 0 THEN code
    ELSE old

\* The exit-code switch of doveadm_cmd_callback for the non-fatal codes.
callback_exit_code(old, code) ==
    IF code = 0 THEN old
    ELSE IF code = EX_NOUSER THEN (IF old = 0 THEN EX_NOUSER ELSE old)
    ELSE IF old = 0 \/ code = EX_TEMPFAIL THEN code
    ELSE old

\* A variant of callback_referral that drops a command whose redirect failed
\* and lets the run go on.
callback_referral_not_fatal(h, servercmd, reply, ok) ==
    LET r == doveadm_cmd_redirect(h, servercmd, reply.error, ok)
    IN  IF r.ret < 0
        THEN doveadm_mail_server_cmd_free(r.h, servercmd)
        ELSE r.h

\* case DOVEADM_EX_REFERRAL of doveadm_cmd_callback, lines 172-178.
callback_referral(h, servercmd, reply, ok) ==
    LET r == doveadm_cmd_redirect(h, servercmd, reply.error, ok)
    IN  IF r.ret < 0
        THEN doveadm_mail_server_cmd_free(
                [r.h EXCEPT !.internal_failure = TRUE, !.stopped = TRUE],
                servercmd)
        ELSE r.h

\* doveadm_cmd_callback(): reply is [exit_code, error]; ok is the outcome of
\* a connection creation the redirect may need.
doveadm_cmd_callback(h, servercmd, reply, ok) ==
    LET server == server_connection_get_server(servercmd.conn)
    IN
    IF reply.exit_code = SERVER_EXIT_CODE_DISCONNECTED THEN
        doveadm_mail_server_cmd_free(
            [h EXCEPT !.internal_failure = TRUE, !.stopped = TRUE,
                      !.reports = @ + 1],
            servercmd)
    ELSE IF reply.exit_code = DOVEADM_EX_REFERRAL THEN
        callback_referral(h, servercmd, reply, ok)
    ELSE
        LET h1 == [h EXCEPT !.exit_code[h.cmd_ctx] =
                        callback_exit_code(@, reply.exit_code)]
            h2 == doveadm_mail_server_cmd_free(h1, servercmd)
            h3 == callback_pop_queue(h2, server)
        IN  [h3 EXCEPT !.stopped = TRUE]

DOVEADM_MAIL_SERVER_FAILED(h, k) == h.internal_failure \/ k

----------------------------------------------------------------------------
(* Control: the single thread is outside the dispatcher ("idle"), inside     *)
(* doveadm_server_flush_one called by doveadm_mail_server_user               *)
(* ("user_drain") or by doveadm_mail_server_flush ("flush_drain"), or has    *)
(* failed the i_assert of doveadm_mail_server_user ("abort").                *)

NO_CTX == "NULL"
Ctxs == {"ctx1", "ctx2"}
NoCall == [server |-> NULL, user |-> 0]
NoFlush == [server |-> NULL, count |-> 0]

\* Settings the runs are checked under: worker count, doveadm_server, port.
Configs == {<<0, FALSE, DefaultPort>>, <<1, FALSE, DefaultPort>>,
            <<1, TRUE, DefaultPort>>, <<1, FALSE, 0>>}

\* auth_master_pass_lookup() results the dispatcher is driven with.
NotFound == [ret |-> 0, fields |-> <<>>]
Lookups == {[ret |-> -1, fields |-> <<>>],
            NotFound,
            [ret |-> 1, fields |-> << <<"proxy">>, <<"host", "=", "b">> >>],
            [ret |-> 1, fields |-> << <<"nologin">>, <<"host", "=", "c">> >>]}

\* Reply codes a connection may deliver, and redirect destinations.
ReplyCodes == {0, SERVER_EXIT_CODE_DISCONNECTED, EX_NOUSER,
               DOVEADM_EX_REFERRAL, EX_TEMPFAIL, EX_DATAERR}
Destinations == {<< <<"b">>, DefaultPort >>, BadDestination}

\* The record of the last step: the operation, the reply code it handled,
\* the value it returned, and the run's exit code before it.
Event(op, code, ret) ==
    [op |-> op, code |-> code, ret |-> ret,
     prev |-> IF op = "reply" THEN exit_code[cmd_ctx] ELSE 0]

NoStep == [sent |-> <<>>, freed |-> {}, replied |-> <<>>, teardown |-> <<>>,
           lookup |-> <<>>, error |-> NULL]

SetHeap(h) ==
    /\ servers' = h.servers
    /\ servers_created' = h.created
    /\ busy' = h.busy
    /\ cmds' = h.cmds
    /\ exit_code' = h.exit_code
    /\ cmd_ctx' = h.cmd_ctx
    /\ internal_failure' = h.internal_failure
    /\ reports' = h.reports
    /\ run_ctx' = h.run_ctx
    /\ step' = [sent |-> h.sent, freed |-> h.freed, replied |-> h.replied,
                teardown |-> h.teardown, lookup |-> h.lookup,
                error |-> h.error]

\* doveadm_mail_server_user returning ret without blocking.
UserReturn(h, op, ret, n) ==
    /\ SetHeap(h)
    /\ ncalls' = n
    /\ nruns' = nruns
    /\ pc' = "idle"
    /\ call' = NoCall
    /\ flushing' = NoFlush
    /\ last' = Event(op, 0, ret)

\* A variant of UserPush that sends the username on an idle connection when
\* the drain left one, instead of queueing it.
UserPush_bypass(h, k, op, code, name, user) ==
    LET conn == doveadm_server_find_unused_conn(h, name)
        h0 == [h EXCEPT !.error = <<"doveadm server failure">>]
        h1 == IF conn # NULL THEN doveadm_mail_server_handle(h0, conn, user)
              ELSE [h0 EXCEPT !.servers[name].queue = Append(@, user)]
    IN  /\ SetHeap(h1)
        /\ ncalls' = user
        /\ nruns' = nruns
        /\ pc' = "idle"
        /\ call' = NoCall
        /\ flushing' = NoFlush
        /\ last' = Event(op, code,
                         IF DOVEADM_MAIL_SERVER_FAILED(h1, k) THEN -1 ELSE 1)

\* Lines 436-440: append the username and return.
UserPush(h, k, op, code, name, user) ==
    LET h1 == [h EXCEPT !.servers[name].queue = Append(@, user),
                        !.error = <<"doveadm server failure">>]
    IN  /\ SetHeap(h1)
        /\ ncalls' = user
        /\ nruns' = nruns
        /\ pc' = "idle"
        /\ call' = NoCall
        /\ flushing' = NoFlush
        /\ last' = Event(op, code,
                         IF DOVEADM_MAIL_SERVER_FAILED(h1, k) THEN -1 ELSE 1)

\* server_connection_destroy() on every connection of every destination; a
\* connection destroyed while busy has its callback run with
\* SERVER_EXIT_CODE_DISCONNECTED.
doveadm_servers_destroy_all_connections(h) ==
    LET pending == {c \in h.cmds : c.conn \in h.busy}
    IN  [h EXCEPT
            !.servers = [n \in DOMAIN h.servers |->
                            [h.servers[n] EXCEPT !.connections = <<>>]],
            !.busy = {},
            !.cmds = @ \ pending,
            !.freed = @ \cup {[cmd |-> c, live |-> TRUE] : c \in pending},
            !.internal_failure = @ \/ pending # {}]

\* What doveadm_mail_server_flush finds when its loop has ended, line 494:
\* whether the run is failed or killed, whether a command is in flight and
\* whether a username is still queued.
TeardownRecord(h, k) ==
    [failed |-> DOVEADM_MAIL_SERVER_FAILED(h, k),
     inflight |-> \E c \in h.cmds : c.conn \in h.busy,
     queued |-> \E n \in DOMAIN h.servers : Len(h.servers[n].queue) > 0]

\* A variant of FlushTeardown that leaves cmd_ctx as it is.
FlushTeardown_keeps_ctx(h, k, op, code) ==
    LET h0 == [h EXCEPT !.teardown = <<TeardownRecord(h, k)>>]
        h1 == doveadm_servers_destroy_all_connections(h0)
        h2 == IF DOVEADM_MAIL_SERVER_FAILED(h1, k)
              THEN [h1 EXCEPT !.exit_code[h.cmd_ctx] = EX_TEMPFAIL]
              ELSE h1
        h3 == [h2 EXCEPT !.servers = EmptyTable, !.created = FALSE,
                         !.run_ctx = NO_CTX, !.reports = 0]
    IN  /\ SetHeap(h3)
        /\ ncalls' = 0
        /\ nruns' = nruns + 1
        /\ pc' = "idle"
        /\ call' = NoCall
        /\ flushing' = NoFlush
        /\ last' = Event(op, code, 0)

\* A variant of FlushTeardown that starts the next run with the failure
\* flag cleared.
FlushTeardown_clears_failure(h, k, op, code) ==
    LET h0 == [h EXCEPT !.teardown = <<TeardownRecord(h, k)>>]
        h1 == doveadm_servers_destroy_all_connections(h0)
        h2 == IF DOVEADM_MAIL_SERVER_FAILED(h1, k)
              THEN [h1 EXCEPT !.exit_code[h.cmd_ctx] = EX_TEMPFAIL]
              ELSE h1
        h3 == [h2 EXCEPT !.servers = EmptyTable, !.created = FALSE,
                         !.cmd_ctx = NO_CTX, !.run_ctx = NO_CTX,
                         !.internal_failure = FALSE, !.reports = 0]
    IN  /\ SetHeap(h3)
        /\ ncalls' = 0
        /\ nruns' = nruns + 1
        /\ pc' = "idle"
        /\ call' = NoCall
        /\ flushing' = NoFlush
        /\ last' = Event(op, code, 0)

\* Lines 494-502 of doveadm_mail_server_flush.
FlushTeardown(h, k, op, code) ==
    LET h0 == [h EXCEPT !.teardown = <<TeardownRecord(h, k)>>]
        h1 == doveadm_servers_destroy_all_connections(h0)
        h2 == IF DOVEADM_MAIL_SERVER_FAILED(h1, k)
              THEN [h1 EXCEPT !.exit_code[h.cmd_ctx] = EX_TEMPFAIL]
              ELSE h1
        h3 == [h2 EXCEPT !.servers = EmptyTable, !.created = FALSE,
                         !.cmd_ctx = NO_CTX, !.run_ctx = NO_CTX,
                         !.reports = 0]
    IN  /\ SetHeap(h3)
        /\ ncalls' = 0
        /\ nruns' = nruns + 1
        /\ pc' = "idle"
        /\ call' = NoCall
        /\ flushing' = NoFlush
        /\ last' = Event(op, code, 0)

\* doveadm_server_find_used(): any destination with a busy connection.
doveadm_server_find_used(h) ==
    {n \in DOMAIN h.servers : doveadm_server_have_used_connections(h, n)}

\* A variant of FlushLoop that tears down without waiting for the commands
\* in flight.
FlushLoop_no_drain(h, k, op, code) == FlushTeardown(h, k, op, code)

\* The while loop of doveadm_mail_server_flush at its test, lines 490-492.
FlushLoop(h, k, op, code) ==
    IF doveadm_server_find_used(h) # {} /\ ~DOVEADM_MAIL_SERVER_FAILED(h, k)
    THEN \E s \in doveadm_server_find_used(h) :
            /\ SetHeap(h)
            /\ UNCHANGED <<ncalls, nruns>>
            /\ pc' = "flush_drain"
            /\ call' = NoCall
            /\ flushing' = [server |-> s, count |-> Len(h.servers[s].queue)]
            /\ last' = Event(op, code, 0)
    ELSE FlushTeardown(h, k, op, code)

\* doveadm_server_flush_one after io_loop_run returned: its while test,
\* lines 243-245, and what follows in the caller when the loop ends.
LoopStopped(h, k, op, code) ==
    IF /\ Len(h.servers[flushing.server].queue) = flushing.count
       /\ doveadm_server_have_used_connections(h, flushing.server)
       /\ ~DOVEADM_MAIL_SERVER_FAILED(h, k)
    THEN /\ SetHeap(h)
         /\ UNCHANGED <<pc, call, flushing, ncalls, nruns>>
         /\ last' = Event(op, code, 0)
    ELSE IF pc = "user_drain"
         THEN UserPush(h, k, op, code, call.server, call.user)
         ELSE FlushLoop(h, k, op, code)

----------------------------------------------------------------------------
(* Actions *)

\* doveadm_mail_server_user(ctx, input): the next user of the run, with the
\* passdb's answer and the outcome of a connection creation it may need.
\* Users are named by the order in which they reach a pool.
MailServerUser(ctx, lookup, ok) ==
    /\ pc = "idle"
    /\ nruns < MaxRuns
    /\ ncalls < (IF nruns = 0 THEN MaxCalls ELSE MaxLaterCalls)
    /\ ncalls >= MaxVaried => lookup = NotFound
    /\ (nruns = 0 /\ cmd_ctx = NO_CTX) => ctx = "ctx1"
    /\ UNCHANGED <<doveadm_worker_count, doveadm_port, doveadm_server,
                   killed, nredirects, rs_in, rs_out>>
    /\ LET user == ncalls + 1
           r == doveadm_mail_server_user_get_host(doveadm_port, user, lookup)
           h0 == [Heap EXCEPT !.cmd_ctx = ctx, !.run_ctx = ctx,
                              !.lookup = IF doveadm_port = 0 THEN <<>>
                                         ELSE <<lookup.ret>>,
                              !.error = r.error]
           h1 == doveadm_server_get(
                    [h0 EXCEPT !.error = <<"doveadm server failure">>],
                    r.host)
           conn == doveadm_server_find_unused_conn(h1, r.host)
           cr == server_connection_create(h1, r.host, ok)
           failed(h) == DOVEADM_MAIL_SERVER_FAILED(h, killed)
           sent(h) == UserReturn(h, "user", IF failed(h) THEN -1 ELSE 1, user)
       IN
       IF cmd_ctx # ctx /\ cmd_ctx # NO_CTX THEN
            /\ pc' = "abort"
            /\ last' = Event("assert", 0, 0)
            /\ step' = NoStep
            /\ UNCHANGED <<servers, servers_created, busy, cmds, exit_code,
                           cmd_ctx, internal_failure, reports, call, flushing,
                           ncalls, nruns, run_ctx>>
       ELSE IF r.ret < 0 THEN UserReturn(h0, "user", r.ret, ncalls)
       ELSE IF r.ret = 0 /\ (doveadm_worker_count = 0 \/ doveadm_server)
       THEN UserReturn(h0, "user", 0, ncalls)
       ELSE IF r.referral # NULL THEN UserReturn(h0, "user", 1, ncalls)
       ELSE IF conn # NULL
       THEN sent(doveadm_mail_server_handle(h1, conn, r.user))
       ELSE IF Len(h1.servers[r.host].connections) <
               I_MAX(doveadm_worker_count, 1)
       THEN IF cr.ret < 0
            THEN UserReturn([h1 EXCEPT !.internal_failure = TRUE,
                                       !.error = <<"connect failed">>],
                            "user", -1, user)
            ELSE sent(doveadm_mail_server_handle(cr.h, cr.conn, r.user))
       ELSE IF Len(h1.servers[r.host].queue) >= DOVEADM_SERVER_QUEUE_MAX
       THEN /\ SetHeap(h1)
            /\ ncalls' = user
            /\ nruns' = nruns
            /\ pc' = "user_drain"
            /\ call' = [server |-> r.host, user |-> r.user]
            /\ flushing' = [server |-> r.host,
                            count |-> Len(h1.servers[r.host].queue)]
            /\ last' = Event("drain", 0, 0)
       ELSE UserPush(h1, killed, "user", 0, r.host, r.user)

\* The event loop delivers a reply to the command bound to a busy
\* connection: the transport has read consumed bytes of the command's input,
\* clears conn->callback (and, when gone, has removed a disconnected
\* connection from its pool), then runs doveadm_cmd_callback.
Deliver(servercmd, code, dest, ok, gone, consumed) ==
    /\ pc \in {"user_drain", "flush_drain"}
    /\ servercmd \in cmds
    /\ servercmd.conn \in busy
    /\ code # DOVEADM_EX_REFERRAL => dest = BadDestination /\ ok
    /\ code # SERVER_EXIT_CODE_DISCONNECTED => ~gone
    /\ servercmd.input = NULL => consumed = 0
    /\ UNCHANGED <<doveadm_worker_count, doveadm_port, doveadm_server,
                   killed, rs_in, rs_out>>
    /\ LET conn == servercmd.conn
           name == server_connection_get_server(conn)
           h0 == [Heap EXCEPT
                    !.busy = @ \ {conn},
                    !.offset = consumed,
                    !.replied = <<[cmd |-> servercmd, consumed |-> consumed,
                                   error |-> dest]>>,
                    !.servers[name].connections =
                        IF gone THEN SelectSeq(@, LAMBDA c : c # conn) ELSE @]
           h1 == doveadm_cmd_callback(h0, servercmd,
                    [exit_code |-> code, error |-> dest], ok)
       IN  IF h1.stopped
           THEN LoopStopped(h1, killed, "reply", code)
           ELSE /\ SetHeap(h1)
                /\ UNCHANGED <<pc, call, flushing, ncalls, nruns>>
                /\ last' = Event("reply", code, 0)

\* A reply, with the redirects of one behaviour counted and capped.
Reply(servercmd, code, dest, ok, gone, consumed) ==
    /\ code = DOVEADM_EX_REFERRAL => nredirects < MaxRedirects
    /\ (code = DOVEADM_EX_REFERRAL /\ dest \in DOMAIN servers) =>
            Len(servers[dest].connections) < MaxConns
    /\ nredirects' = IF code = DOVEADM_EX_REFERRAL THEN nredirects + 1
                     ELSE nredirects
    /\ Deliver(servercmd, code, dest, ok, gone, consumed)

\* A termination signal: master_service_is_killed() becomes true and the
\* signal handler stops the running event loop.
Kill ==
    /\ ~killed
    /\ pc # "abort"
    /\ killed' = TRUE
    /\ UNCHANGED <<doveadm_worker_count, doveadm_port, doveadm_server,
                   nredirects, rs_in, rs_out>>
    /\ IF pc = "idle"
       THEN /\ UNCHANGED <<servers, servers_created, busy, cmds, exit_code,
                           cmd_ctx, internal_failure, reports, pc, call,
                           flushing, ncalls, nruns, run_ctx>>
            /\ step' = NoStep
            /\ last' = Event("kill", 0, 0)
       ELSE LoopStopped(Heap, TRUE, "kill", 0)

\* doveadm_mail_server_flush()
MailServerFlush ==
    /\ pc = "idle"
    /\ nruns < MaxRuns
    /\ UNCHANGED <<doveadm_worker_count, doveadm_port, doveadm_server,
                   killed, nredirects, rs_in, rs_out>>
    /\ IF ~servers_created
       THEN /\ cmd_ctx' = NO_CTX
            /\ run_ctx' = NO_CTX
            /\ step' = NoStep
            /\ ncalls' = 0
            /\ nruns' = nruns + 1
            /\ UNCHANGED <<servers, servers_created, busy, cmds, exit_code,
                           internal_failure, reports, pc, call, flushing>>
            /\ last' = Event("flush", 0, 0)
       ELSE FlushLoop(Heap, killed, "flush", 0)

Init ==
    /\ \E c \in Configs :
        /\ doveadm_worker_count = c[1]
        /\ doveadm_server = c[2]
        /\ doveadm_port = c[3]
    /\ servers = EmptyTable
    /\ servers_created = FALSE
    /\ busy = {}
    /\ cmds = {}
    /\ cmd_ctx = NO_CTX
    /\ exit_code = [c \in Ctxs |-> 0]
    /\ internal_failure = FALSE
    /\ reports = 0
    /\ killed = FALSE
    /\ pc = "idle"
    /\ call = NoCall
    /\ flushing = NoFlush
    /\ ncalls = 0
    /\ nruns = 0
    /\ nredirects = 0
    /\ last = [op |-> "init", code |-> 0, ret |-> 0, prev |-> 0]
    /\ step = NoStep
    /\ run_ctx = NO_CTX
    /\ rs_in = <<>>
    /\ rs_out = <<>>

Next ==
    \/ \E ctx \in Ctxs, lookup \in Lookups, ok \in BOOLEAN :
            MailServerUser(ctx, lookup, ok)
    \/ \E servercmd \in cmds, code \in ReplyCodes, dest \in Destinations,
          ok \in BOOLEAN, gone \in BOOLEAN, consumed \in 0..MaxConsumed :
            Reply(servercmd, code, dest, ok, gone, consumed)
    \/ Kill
    \/ MailServerFlush

Spec == Init /\ [][Next]_vars

----------------------------------------------------------------------------
(* The dispatcher with every command in flight eventually answered.  The     *)
(* servers may answer with a referral any number of times: Rebound is a      *)
(* referral to a destination that has an idle connection or none at all, so  *)
(* that no pool grows beyond one connection by it.                           *)

FairDestinations == {<< <<"b">>, DefaultPort >>, << <<"c">>, DefaultPort >>}

Rebound(servercmd, dest, ok, consumed) ==
    /\ servercmd \in cmds
    /\ dest \in DOMAIN servers =>
          \/ servers[dest].connections = <<>>
          \/ \E i \in 1..Len(servers[dest].connections) :
                servers[dest].connections[i] \notin busy \ {servercmd.conn}
    /\ UNCHANGED nredirects
    /\ Deliver(servercmd, DOVEADM_EX_REFERRAL, dest, ok, FALSE, consumed)

\* Some reply reaches the command of username u.
ReplyTo(u) ==
    \E servercmd \in cmds :
        /\ servercmd.username = u
        /\ \/ \E code \in ReplyCodes, dest \in Destinations,
                  ok \in BOOLEAN, gone \in BOOLEAN,
                  consumed \in 0..MaxConsumed :
                    Reply(servercmd, code, dest, ok, gone, consumed)
           \/ \E dest \in FairDestinations, ok \in BOOLEAN,
                  consumed \in 0..MaxConsumed :
                    Rebound(servercmd, dest, ok, consumed)

InitFair ==
    /\ Init
    /\ doveadm_worker_count = 1
    /\ ~doveadm_server
    /\ doveadm_port = DefaultPort

NextFair ==
    \/ \E ctx \in Ctxs, lookup \in Lookups, ok \in BOOLEAN :
            ncalls < MaxFairCalls /\ MailServerUser(ctx, lookup, ok)
    \/ \E servercmd \in cmds, code \in ReplyCodes, dest \in Destinations,
          ok \in BOOLEAN, gone \in BOOLEAN, consumed \in 0..MaxConsumed :
            Reply(servercmd, code, dest, ok, gone, consumed)
    \/ \E servercmd \in cmds, dest \in FairDestinations, ok \in BOOLEAN,
          consumed \in 0..MaxConsumed :
            Rebound(servercmd, dest, ok, consumed)
    \/ Kill
    \/ MailServerFlush

Fairness == \A u \in 1..MaxFairCalls : WF_vars(ReplyTo(u))

SpecFair == InitFair /\ [][NextFair]_vars /\ Fairness

----------------------------------------------------------------------------
(* The resolver on its own: Init draws one lookup, Resolve applies           *)
(* doveadm_mail_server_user_get_host to it.                                  *)

FieldPool == {<<"proxy">>, <<"nologin", "=", "0">>, <<"host", "=", "b">>,
              <<"hostip", "=", "bogus">>, <<"hostip", "=", "10.0.0.1">>,
              <<"destuser", "=", "carol">>, <<"user", "=", "bob">>,
              <<"port", "=", "2000">>, <<"port", "=", "abc">>,
              <<"starttls", "=", "any-cert">>}

FieldLists == UNION {[1..n -> FieldPool] : n \in 0..MaxFields}

ResolverInputs ==
    {[cfg_port |-> DefaultPort, username |-> <<"alice">>,
      lookup |-> [ret |-> 1, fields |-> f]] : f \in FieldLists}
    \cup {[cfg_port |-> c, username |-> <<"alice">>,
           lookup |-> [ret |-> r, fields |-> <<>>]] :
                c \in {0, DefaultPort}, r \in {-1, 0, 1}}

Resolve ==
    /\ rs_in # <<>>
    /\ rs_out = <<>>
    /\ rs_out' = <<doveadm_mail_server_user_get_host(rs_in[1].cfg_port,
                        rs_in[1].username, rs_in[1].lookup)>>
    /\ UNCHANGED <<poolvars, rs_in>>

InitResolver ==
    /\ doveadm_worker_count = 1
    /\ doveadm_server = FALSE
    /\ doveadm_port = DefaultPort
    /\ servers = EmptyTable
    /\ servers_created = FALSE
    /\ busy = {}
    /\ cmds = {}
    /\ cmd_ctx = NO_CTX
    /\ exit_code = [c \in Ctxs |-> 0]
    /\ internal_failure = FALSE
    /\ reports = 0
    /\ killed = FALSE
    /\ pc = "idle"
    /\ call = NoCall
    /\ flushing = NoFlush
    /\ ncalls = 0
    /\ nruns = 0
    /\ nredirects = 0
    /\ last = [op |-> "init", code |-> 0, ret |-> 0, prev |-> 0]
    /\ step = NoStep
    /\ run_ctx = NO_CTX
    /\ \E i \in ResolverInputs : rs_in = <<i>>
    /\ rs_out = <<>>

NextResolver == Resolve

SpecResolver == InitResolver /\ [][NextResolver]_vars

----------------------------------------------------------------------------
(* Properties *)

Usernames(cs) == {c.username : c \in cs}
Failed == internal_failure \/ killed
Sorted(q) == \A i, j \in 1..Len(q) : i < j => q[i] < q[j]
Live == DOMAIN servers \cap DOMAIN servers'

\* C1: in every reachable state every destination holds at most
\* max(worker_count, 1) live connections.
C1_ConnectionLimit ==
    \A n \in DOMAIN servers :
        Len(servers[n].connections) <= I_MAX(doveadm_worker_count, 1)

\* C2: in every reachable state every destination's queue holds at most
\* DOVEADM_SERVER_QUEUE_MAX usernames.
C2_QueueBound ==
    \A n \in DOMAIN servers :
        Len(servers[n].queue) <= DOVEADM_SERVER_QUEUE_MAX

\* C3: once a fatal disconnect has been reported in a run, no step of that
\* run binds a new command, shortens a queue or reports a disconnect again.
C3_HaltAfterDisconnect ==
    [][(reports >= 1 /\ nruns' = nruns) =>
          /\ Usernames(cmds') \subseteq Usernames(cmds)
          /\ \A n \in Live : Len(servers'[n].queue) >= Len(servers[n].queue)
          /\ reports' = reports]_vars

\* C4: a queue is FIFO: every step removes at most its head, which it binds
\* to a connection, appends at most one username at its tail, and leaves
\* the queue in the order of enqueueing.
FifoStep(q, q2, cs2) ==
    \E k \in {0, 1}, extra \in {0, 1} :
        /\ k <= Len(q)
        /\ Len(q2) = Len(q) - k + extra
        /\ \A i \in 1..(Len(q) - k) : q2[i] = q[i + k]
        /\ k = 1 => q[1] \in Usernames(cs2)

C4_QueueIsFifo ==
    [][\A n \in Live :
          /\ FifoStep(servers[n].queue, servers'[n].queue, cmds')
          /\ Sorted(servers'[n].queue)]_vars

C4_Witness ==
    /\ last.op = "reply"
    /\ \E n \in DOMAIN servers, c \in cmds :
          /\ Len(servers[n].queue) > 0
          /\ server_connection_get_server(c.conn) = n
          /\ c.username > 1
          /\ c.username + 1 = Head(servers[n].queue)

\* C5: once a context's exit code is EX_TEMPFAIL no step changes it, and a
\* reply with EX_NOUSER changes an exit code only from 0 to EX_NOUSER.
C5_ExitCodeMonotonic ==
    [][\A c \in Ctxs :
          /\ exit_code[c] = EX_TEMPFAIL => exit_code'[c] = EX_TEMPFAIL
          /\ (last'.op = "reply" /\ last'.code = EX_NOUSER
                /\ exit_code'[c] # exit_code[c]) =>
                    (exit_code[c] = 0 /\ exit_code'[c] = EX_NOUSER)]_vars

C5_Witness ==
    /\ last.op = "reply"
    /\ last.code \in {EX_NOUSER, EX_DATAERR}
    /\ last.prev = EX_TEMPFAIL
    /\ \E c \in Ctxs : exit_code[c] = EX_TEMPFAIL

\* C6 as stated: a reply with EX_TEMPFAIL leaves an exit code of EX_NOUSER
\* unchanged.
C6_NoUserNotOverridden ==
    [][(last'.op = "reply" /\ last'.code = EX_TEMPFAIL
          /\ cmd_ctx # NO_CTX /\ exit_code[cmd_ctx] = EX_NOUSER) =>
              exit_code'[cmd_ctx] = EX_NOUSER]_vars

\* C6 as amended: a reply with EX_TEMPFAIL sets the run's exit code to
\* EX_TEMPFAIL whatever was recorded before, EX_NOUSER included.
C6_TempFailOverrides ==
    [][(last'.op = "reply" /\ last'.code = EX_TEMPFAIL) =>
          exit_code'[cmd_ctx] = EX_TEMPFAIL]_vars

C6_Witness ==
    /\ last.op = "reply"
    /\ last.code = EX_TEMPFAIL
    /\ last.prev = EX_NOUSER
    /\ \E c \in Ctxs : exit_code[c] = EX_TEMPFAIL

C8_OneCommandPerConnection ==
    \A c1, c2 \in cmds : c1.conn = c2.conn => c1 = c2

C8_Witness ==
    /\ last.op = "reply"
    /\ Cardinality(cmds) >= 2
    /\ \A c \in cmds : c.conn \in busy

HasKey(fields, k) ==
    \E i \in 1..Len(fields) : FieldKey(fields[i]) = <<k>>
LastValue(fields, keys) ==
    LET idx == {i \in 1..Len(fields) : FieldKey(fields[i]) \in keys}
    IN  FieldValue(fields[CHOOSE i \in idx : \A j \in idx : j <= i])
HasInvalidHostip(fields) ==
    \E i \in 1..Len(fields) :
        /\ FieldKey(fields[i]) = <<"hostip">>
        /\ net_addr2ip(FieldValue(fields[i])) < 0
SuccessfulLookup ==
    /\ rs_out # <<>>
    /\ rs_in[1].cfg_port # 0
    /\ rs_in[1].lookup.ret > 0

\* C9: a successful lookup with a hostip field that is no valid address
\* resolves to Error.
C9_InvalidHostipIsError ==
    (SuccessfulLookup /\ HasInvalidHostip(rs_in[1].lookup.fields)) =>
        Outcome(rs_out[1]) = "Error"

\* The port of a proxied destination: as C10 states it (the port field, or
\* the configured port), and as amended (0 when the port field is no port).
PortFieldOrConfigured(fields, cfg_port) ==
    IF HasKey(fields, "port")
       /\ net_str2port(LastValue(fields, {<<"port">>})).ret = 0
    THEN net_str2port(LastValue(fields, {<<"port">>})).port
    ELSE cfg_port
PortFieldOrZero(fields, cfg_port) ==
    IF ~HasKey(fields, "port") THEN cfg_port
    ELSE IF net_str2port(LastValue(fields, {<<"port">>})).ret = 0
    THEN net_str2port(LastValue(fields, {<<"port">>})).port
    ELSE 0

ResolverAgrees(PortOf(_, _)) ==
    (SuccessfulLookup /\ ~HasInvalidHostip(rs_in[1].lookup.fields)) =>
        LET f == rs_in[1].lookup.fields
            out == rs_out[1]
            port == PortOf(f, rs_in[1].cfg_port)
            user == IF HasKey(f, "user") \/ HasKey(f, "destuser")
                    THEN LastValue(f, {<<"user">>, <<"destuser">>})
                    ELSE rs_in[1].username
        IN  IF HasKey(f, "proxy")
            THEN IF HasKey(f, "host")
                 THEN /\ Outcome(out) = "Proxy"
                      /\ out.host = <<LastValue(f, {<<"host">>}), port>>
                      /\ out.port = port
                      /\ out.user = user
                 ELSE Outcome(out) = "Error"
            ELSE IF HasKey(f, "nologin") /\ HasKey(f, "host")
                 THEN /\ Outcome(out) = "Referral"
                      /\ out.referral =
                            <<user, "@", LastValue(f, {<<"host">>})>>
                 ELSE Outcome(out) = "RunLocally"

\* C10 as stated: the outcome of a successful lookup is decided by the keys
\* present, and a proxied destination's port is the port field or else the
\* configured port.
C10_OutcomeByKeys == ResolverAgrees(PortFieldOrConfigured)

\* C10 as amended: the outcome of a successful lookup is decided by the
\* keys present; a proxied destination's port is the last port field when
\* it parses as a port, 0 when it does not, and the configured port when
\* there is no port field.
C10_OutcomeByKeysPortZero == ResolverAgrees(PortFieldOrZero)

C10_Witness ==
    /\ SuccessfulLookup
    /\ Outcome(rs_out[1]) = "Proxy"
    /\ HasKey(rs_in[1].lookup.fields, "port")
    /\ HasKey(rs_in[1].lookup.fields, "nologin")
    /\ rs_out[1].port = 0

\* C11: when a reply with DOVEADM_EX_REFERRAL is answered by a re-send, the
\* line sent is the line built for the command's username when it was first
\* sent, the input is the command's input, and an input stream is read from
\* offset 0 however much of it the first attempt had read.
Redirected ==
    /\ last.op = "reply"
    /\ last.code = DOVEADM_EX_REFERRAL
    /\ step.replied # <<>>
    /\ step.sent # <<>>

C11_RedirectReplaysInput ==
    Redirected =>
        LET c == step.replied[1].cmd
            s == step.sent[1]
        IN  /\ Len(step.sent) = 1
            /\ s.cmdline = c.cmdline
            /\ s.cmdline = Cmdline(cmd_ctx, c.username)
            /\ s.input = c.input
            /\ s.offset = 0

C11_Witness ==
    /\ Redirected
    /\ step.replied[1].cmd.input # NULL
    /\ step.replied[1].consumed > 0
    /\ step.sent[1].conn # step.replied[1].cmd.conn
    /\ step.sent[1].offset = 0

\* C12 as stated: when doveadm_port is set and the passdb lookup fails, the
\* call returns the failure with an error that starts with the lookup
\* socket's path, leaves destinations, connections, commands and queues as
\* they were, and records a failure of the run.
LookupFailed == last'.op = "user" /\ step'.lookup = <<-1>>
NotDispatched ==
    /\ last'.ret = -1
    /\ step'.error[1] = AuthSocketPath
    /\ step'.sent = <<>>
    /\ UNCHANGED <<servers, servers_created, busy, cmds>>

C12_LookupFailureRecorded ==
    [][LookupFailed =>
          /\ NotDispatched
          /\ internal_failure' \/ exit_code'[cmd_ctx'] # 0]_vars

\* C12 as amended: when doveadm_port is set and the passdb lookup fails, the
\* call returns the failure with an error that starts with the lookup
\* socket's path and leaves destinations, connections, commands and queues
\* as they were; it records nothing: the failure flag and the exit codes
\* are as before.
C12_LookupFailureReturned ==
    [][LookupFailed =>
          /\ NotDispatched
          /\ UNCHANGED <<internal_failure, exit_code>>]_vars

C12_Witness ==
    /\ last.op = "user"
    /\ step.lookup = <<-1>>
    /\ last.ret = -1
    /\ step.error[1] = AuthSocketPath
    /\ doveadm_port # 0
    /\ cmd_ctx # NO_CTX
    /\ ~internal_failure
    /\ exit_code[cmd_ctx] = 0

\* C13: the context the dispatcher holds is the context of the run the
\* caller is in; doveadm_mail_server_flush returns with no context held,
\* from its early return and after a failed run alike; so the assertion of
\* doveadm_mail_server_user fails only when a call names another context
\* while a run is still open.
FlushReturned ==
    \/ last.op = "flush" /\ pc = "idle"
    \/ step.teardown # <<>>

C13_OneActiveContext ==
    /\ cmd_ctx = run_ctx
    /\ FlushReturned => cmd_ctx = NO_CTX
    /\ pc = "abort" => run_ctx # NO_CTX

C13_Witness ==
    /\ nruns >= 1
    /\ last.op = "user"
    /\ pc = "idle"
    /\ cmd_ctx = "ctx2"
    /\ exit_code["ctx1"] = EX_TEMPFAIL
    /\ internal_failure

\* C14: doveadm_mail_server_flush tears down with a command in flight only
\* when the run is failed or killed, and it returns with no connection
\* left, no connection busy and the registry released.
C14_TeardownAfterDrain ==
    /\ step.teardown # <<>> =>
            (step.teardown[1].inflight => step.teardown[1].failed)
    /\ FlushReturned =>
            /\ servers = EmptyTable
            /\ ~servers_created
            /\ busy = {}

C14_Witness ==
    /\ last.op = "reply"
    /\ step.teardown # <<>>
    /\ ~step.teardown[1].failed
    /\ ~step.teardown[1].inflight
    /\ step.freed # {}
    /\ servers = EmptyTable

\* C15: a reply that is neither a disconnect nor a referral frees its
\* command; when the queue of the replying connection's destination is not
\* empty, the callback sends exactly one command, the one of the oldest
\* queued username, on an idle connection of that destination, and every
\* other queued username moves up one place; when the queue is empty it
\* sends nothing.  The username at place k is therefore sent by the k-th
\* such reply of its destination at the latest.
TerminalReply ==
    /\ last'.op = "reply"
    /\ last'.code \notin {SERVER_EXIT_CODE_DISCONNECTED, DOVEADM_EX_REFERRAL}
    /\ step'.replied # <<>>

C15_CompletionPopsHead ==
    [][TerminalReply =>
          LET c == step'.replied[1].cmd
              n == server_connection_get_server(c.conn)
              q == servers[n].queue
          IN  /\ [cmd |-> c, live |-> TRUE] \in step'.freed
              /\ IF Len(q) = 0 THEN step'.sent = <<>>
                 ELSE /\ Len(step'.sent) = 1
                      /\ step'.sent[1].cmdline = Cmdline(cmd_ctx, Head(q))
                      /\ server_connection_get_server(step'.sent[1].conn) = n
                      /\ step'.sent[1].conn \notin busy \ {c.conn}
                      /\ n \in DOMAIN servers' =>
                            /\ Len(servers'[n].queue) >= Len(q) - 1
                            /\ \A i \in 1..(Len(q) - 1) :
                                  servers'[n].queue[i] = q[i + 1]]_vars

C15_Witness ==
    /\ last.op = "reply"
    /\ last.code = EX_NOUSER
    /\ pc = "flush_drain"
    /\ Len(step.sent) = 1
    /\ \E n \in DOMAIN servers :
          /\ n = server_connection_get_server(step.sent[1].conn)
          /\ Len(servers[n].queue) >= 2
          /\ step.sent[1].cmdline =
                Cmdline(cmd_ctx, Head(servers[n].queue) - 1)

\* C16: a reply with DOVEADM_EX_REFERRAL either re-sends its command, which
\* is then bound to a connection of the destination the reply names, is not
\* freed and leaves the failure flag and the exit codes as they were; or it
\* sends nothing, and then the failure flag is set, the command is freed and
\* the stopped loop ends the drain.
ReferralReply ==
    /\ last'.op = "reply"
    /\ last'.code = DOVEADM_EX_REFERRAL
    /\ step'.replied # <<>>

C16_ReferralRedirectsOrFails ==
    [][ReferralReply =>
          LET c == step'.replied[1].cmd
              dest == step'.replied[1].error
          IN  IF step'.sent # <<>>
              THEN /\ Len(step'.sent) = 1
                   /\ dest \in DOMAIN servers'
                   /\ \E i \in 1..Len(servers'[dest].connections) :
                         servers'[dest].connections[i] = step'.sent[1].conn
                   /\ cmds' = (cmds \ {c}) \cup
                                {[c EXCEPT !.conn = step'.sent[1].conn]}
                   /\ step'.freed = {}
                   /\ UNCHANGED <<internal_failure, exit_code>>
              ELSE /\ internal_failure'
                   /\ step'.freed \cap {[cmd |-> c, live |-> TRUE]} # {}
                   /\ c \notin cmds'
                   /\ pc' = "idle"]_vars

C16_Witness ==
    /\ last.op = "reply"
    /\ last.code = DOVEADM_EX_REFERRAL
    /\ step.replied # <<>>
    /\ step.replied[1].error # BadDestination
    /\ step.sent = <<>>
    /\ internal_failure
    /\ step.replied[1].error \in DOMAIN servers
    /\ servers[step.replied[1].error].connections = <<>>

\* C17: when every command in flight is eventually answered, a drain
\* (doveadm_server_flush_one, alone or within doveadm_mail_server_flush)
\* eventually returns, and the teardown finds a command in flight only when
\* the run is failed or killed.
Draining == pc \in {"user_drain", "flush_drain"}

C17_DrainTerminates ==
    /\ [](step.teardown # <<>> =>
            (step.teardown[1].inflight => step.teardown[1].failed))
    /\ Draining ~> (pc = "idle")

\* C18: when doveadm_mail_server_flush tears down a run that is neither
\* failed nor killed, no username is left in a queue.
C18_NoUsernameDropped ==
    (step.teardown # <<>> /\ ~step.teardown[1].failed) =>
        ~step.teardown[1].queued

\* C19: between steps every live command is bound to a busy connection and
\* every busy connection carries exactly one live command; a step frees
\* only commands that were live, and a freed command is live no more; every
\* reply frees its command except a referral that was re-sent, which frees
\* nothing; doveadm_mail_server_flush returns with no command left.
C19_CommandsMatchBusyConnections ==
    /\ \A c \in cmds : c.conn \in busy
    /\ \A conn \in busy : Cardinality({c \in cmds : c.conn = conn}) = 1
    /\ \A f \in step.freed : f.live /\ f.cmd \notin cmds
    /\ step.replied # <<>> =>
          IF Redirected THEN step.freed = {}
          ELSE [cmd |-> step.replied[1].cmd, live |-> TRUE] \in step.freed
    /\ FlushReturned => cmds = {}

C19_Witness ==
    /\ Redirected
    /\ step.freed = {}
    /\ Cardinality(cmds) >= 2
    /\ Cardinality(busy) = Cardinality(cmds)
    /\ \E n \in DOMAIN servers :
          /\ servers[n].connections # <<>>
          /\ ~doveadm_server_have_used_connections(Heap, n)

\* A step in which a call of doveadm_mail_server_user that reached a pool
\* returns: at once, or when its drain has ended.
PoolCallReturns ==
    /\ pc' = "idle"
    /\ nruns' = nruns
    /\ \/ pc = "idle" /\ ncalls' = ncalls + 1
       \/ pc = "user_drain"

\* C20: no step clears internal_failure, the teardown of
\* doveadm_mail_server_flush included, and once it is set every call of
\* doveadm_mail_server_user that sends or queues its username returns -1.
C20_FailureFlagLatched ==
    [][/\ internal_failure => internal_failure'
       /\ (internal_failure /\ PoolCallReturns) => last'.ret = -1]_vars

C20_Witness ==
    /\ nruns >= 1
    /\ internal_failure
    /\ ~killed
    /\ pc = "idle"
    /\ last.op = "user"
    /\ last.ret = -1
    /\ step.sent # <<>>
    /\ cmds # {}

====
